---- MODULE Spec2Model ----
(***************************************************************************)
(* The contacts service of src/main.py: registration, email verification,  *)
(* login, contact CRUD and avatar upload, as a state machine over the two  *)
(* tables (users, contacts) and the last HTTP exchange.                    *)
(***************************************************************************)
EXTENDS Integers, Sequences, FiniteSets, TLC

\* ------------------------------------------------------------------ bounds
MaxContacts == 1

Emails == {"ann@x", "bob@x"}
Passwords == {"pw1", "pw2"}
RegisterPasswords == {"pw1"}
ContactIds == {1, 2}
Procs == {1, 2}

\* ------------------------------------------------------------ python values
\* A Python value carries its type: None, str, int, date.
Null == [t |-> "null"]
Str(s) == [t |-> "str", s |-> s]
IntV(n) == [t |-> "int", n |-> n]
Date(y, m, d) == [t |-> "date", y |-> y, m |-> m, d |-> d]

\* ------------------------------------------------------------------ schemas
StrFields == {"first_name", "last_name", "email", "phone", "additional_info"}
ContactBase == StrFields \cup {"birthday"}
ContactUpdate == StrFields
ContactSchema == ContactBase \cup {"id", "owner_id"}

FieldType(f) ==
  IF f \in StrFields THEN "str"
  ELSE IF f = "birthday" THEN "date"
  ELSE "int"

\* ---------------------------------------------------------- date conversion
\* An ISO date is a sequence of characters, "YYYY-MM-DD".
DigitOf == [c \in {"0", "1", "2", "3", "4", "5", "6", "7", "8", "9"} |->
             CASE c = "0" -> 0 [] c = "1" -> 1 [] c = "2" -> 2 [] c = "3" -> 3
               [] c = "4" -> 4 [] c = "5" -> 5 [] c = "6" -> 6 [] c = "7" -> 7
               [] c = "8" -> 8 [] c = "9" -> 9]
CharOf == <<"0", "1", "2", "3", "4", "5", "6", "7", "8", "9">>

IsLeap(y) == (y % 4 = 0 /\ y % 100 # 0) \/ y % 400 = 0
DaysIn(y, m) ==
  IF m = 2 THEN (IF IsLeap(y) THEN 29 ELSE 28)
  ELSE IF m \in {4, 6, 9, 11} THEN 30 ELSE 31

IsoShape(s) ==
  /\ Len(s) = 10
  /\ s[5] = "-" /\ s[8] = "-"
  /\ \A i \in {1, 2, 3, 4, 6, 7, 9, 10} : s[i] \in DOMAIN DigitOf

\* Null when the text is not a calendar date (a validation error).
ParseDate(s) ==
  IF ~IsoShape(s) THEN Null
  ELSE LET y == DigitOf[s[1]] * 1000 + DigitOf[s[2]] * 100
                + DigitOf[s[3]] * 10 + DigitOf[s[4]]
           m == DigitOf[s[6]] * 10 + DigitOf[s[7]]
           d == DigitOf[s[9]] * 10 + DigitOf[s[10]]
       IN IF y >= 1 /\ m \in 1..12 /\ d \in 1..DaysIn(y, m)
          THEN Date(y, m, d) ELSE Null

Digit(n) == CharOf[(n % 10) + 1]
Pad2(n) == <<Digit(n \div 10), Digit(n)>>
Pad4(n) == <<Digit(n \div 1000), Digit(n \div 100), Digit(n \div 10), Digit(n)>>
FormatDate(v) == Pad4(v.y) \o <<"-">> \o Pad2(v.m) \o <<"-">> \o Pad2(v.d)

\* -------------------------------------------------------------------- state
VARIABLES
  users,      \* table "users": sequence of rows, a row's id is its index
  contacts,   \* table "contacts": contact id -> row
  uuids,      \* number of uuid4() values drawn so far
  issued,     \* emails for which login has minted an access token
  regToken,   \* history: user id -> the verification token issued at registration
  consumed,   \* history: verification tokens whose verify_email succeeded
  last,       \* the last HTTP exchange: operation, status, key and body
  pc,         \* concurrent register: per request, "idle" or "insert"
  loc         \* concurrent register: per request, the email and password read

vars == <<users, contacts, uuids, issued, regToken, consumed, last, pc, loc>>
store == <<users, contacts>>
raceVars == <<pc, loc>>

NoLoc == [email |-> "", password |-> ""]

Init ==
  /\ users = <<>>
  /\ contacts = <<>>
  /\ uuids = 0
  /\ issued = {}
  /\ regToken = <<>>
  /\ consumed = {}
  /\ last = [op |-> "start", status |-> 0, key |-> Null, body |-> Null]
  /\ pc = [p \in Procs |-> "idle"]
  /\ loc = [p \in Procs |-> NoLoc]

Response(op, status, key, body) ==
  [op |-> op, status |-> status, key |-> key, body |-> body]
Detail(msg) == [detail |-> msg]

\* ------------------------------------------------------------ collaborators
\* utils.hash_password / utils.verify_password
hash_password(p) == <<"hash", p>>
verify_password(p, h) == h = hash_password(p)

\* uuid4(): the k-th value drawn; values never repeat
uuid4(k) == Str(<<"uuid", k>>)

\* auth.create_access_token / auth.verify_token: a token is its payload, a
\* signature flag and an expiry flag; verification yields the payload or Null.
create_access_token(data) == [payload |-> data, signed |-> TRUE]
verify_token(token, expired) ==
  IF token.signed /\ ~expired THEN token.payload ELSE Null

\* --------------------------------------------------------------- ORM queries
UserIds == DOMAIN users
UserByEmail(e) ==
  IF \E i \in UserIds : users[i].email = e
  THEN CHOOSE i \in UserIds : users[i].email = e /\ \A j \in UserIds : users[j].email = e => i <= j
  ELSE 0
UserByToken(tok) ==
  IF \E i \in UserIds : users[i].verification_token = tok
  THEN CHOOSE i \in UserIds : users[i].verification_token = tok
                               /\ \A j \in UserIds : users[j].verification_token = tok => i <= j
  ELSE 0

\* The row built without its verification token.
NewUser_no_token(id, e, p, tok) ==
  [id |-> id, email |-> e, hashed_password |-> hash_password(p),
   is_verified |-> FALSE, verification_token |-> Null, avatar_url |-> Null]

\* models.User row as created by register (is_verified defaults to False)
NewUser(id, e, p, tok) ==
  [id |-> id, email |-> e, hashed_password |-> hash_password(p),
   is_verified |-> FALSE, verification_token |-> tok, avatar_url |-> Null]

\* --------------------------------------------------------- response models
\* response_model=ContactSchema: the returned object must carry every field
\* of schemas.Contact with a value of the field's type.
ValidContact(obj) ==
  /\ ContactSchema \subseteq DOMAIN obj
  /\ \A f \in ContactSchema : obj[f].t = FieldType(f)
ContactView(obj) ==
  [f \in ContactSchema |->
     IF f = "birthday" THEN Str(FormatDate(obj[f])) ELSE obj[f]]

\* ------------------------------------------------------------------- register
RegisterKey(e, created) == [email |-> e, created |-> created]

\* main.py lines 66-74: hash, draw the token, insert, commit, refresh, notify
\* and return the row through response_model=ContactSchema. The commit checks
\* the unique index on users.email.
RegisterInsert(e, p) ==
  /\ uuids < Cardinality(Emails) * Cardinality(Procs)
  /\ uuids' = uuids + 1
  /\ LET new_user == NewUser(Len(users) + 1, e, p, uuid4(uuids + 1)) IN
     IF UserByEmail(e) # 0
     THEN /\ last' = Response("register", 500, RegisterKey(e, FALSE),
                              Detail("IntegrityError"))
          /\ UNCHANGED <<users, regToken>>
     ELSE /\ users' = Append(users, new_user)
          /\ regToken' = Append(regToken, new_user.verification_token)
          /\ last' = IF ValidContact(new_user)
                     THEN Response("register", 200, RegisterKey(e, TRUE),
                                   ContactView(new_user))
                     ELSE Response("register", 500, RegisterKey(e, TRUE),
                                   Detail("Internal Server Error"))

RegisterConflict(e) ==
  /\ last' = Response("register", 409, RegisterKey(e, FALSE),
                      Detail("User with this email already exists"))
  /\ UNCHANGED <<users, uuids, regToken>>

\* register without the lookup of lines 62-64.
register_no_lookup(e, p) ==
  /\ RegisterInsert(e, p)
  /\ UNCHANGED <<contacts, issued, consumed, raceVars>>

register(e, p) ==
  /\ LET existing_user == UserByEmail(e) IN
     IF existing_user # 0 THEN RegisterConflict(e) ELSE RegisterInsert(e, p)
  /\ UNCHANGED <<contacts, issued, consumed, raceVars>>

\* --------------------------------------------------------------- verify_email
\* verify_email without line 91: the token stays on the row.
verify_email_keep_token(token) ==
  /\ LET user == UserByToken(token) IN
     IF user # 0
     THEN /\ users' = [users EXCEPT ![user].is_verified = TRUE]
          /\ consumed' = consumed \cup {token}
          /\ last' = Response("verify_email", 200, token,
                              [msg |-> "Email verified successfully"])
     ELSE /\ last' = Response("verify_email", 400, token, Detail("Invalid token"))
          /\ UNCHANGED <<users, consumed>>
  /\ UNCHANGED <<contacts, uuids, issued, regToken, raceVars>>

verify_email(token) ==
  /\ LET user == UserByToken(token) IN
     IF user # 0
     THEN /\ users' = [users EXCEPT ![user].is_verified = TRUE,
                                    ![user].verification_token = Null]
          /\ consumed' = consumed \cup {token}
          /\ last' = Response("verify_email", 200, token,
                              [msg |-> "Email verified successfully"])
     ELSE /\ last' = Response("verify_email", 400, token, Detail("Invalid token"))
          /\ UNCHANGED <<users, consumed>>
  /\ UNCHANGED <<contacts, uuids, issued, regToken, raceVars>>

\* ---------------------------------------------------------------------- login
LoginKey(username, password) == [email |-> username, password |-> password]

\* login without the is_verified test of lines 111-112.
login_skip_verified(username, password) ==
  /\ LET user == UserByEmail(username) IN
     IF user = 0 \/ ~verify_password(password, users[user].hashed_password)
     THEN /\ last' = Response("login", 401, LoginKey(username, password),
                              Detail("Incorrect email or password"))
          /\ UNCHANGED issued
     ELSE /\ issued' = issued \cup {users[user].email}
          /\ last' = Response("login", 200, LoginKey(username, password),
                              [access_token |-> create_access_token([sub |-> users[user].email]),
                               token_type |-> "bearer"])
  /\ UNCHANGED <<users, contacts, uuids, regToken, consumed, raceVars>>

login(username, password) ==
  /\ LET user == UserByEmail(username) IN
     IF user = 0 \/ ~verify_password(password, users[user].hashed_password)
     THEN /\ last' = Response("login", 401, LoginKey(username, password),
                              Detail("Incorrect email or password"))
          /\ UNCHANGED issued
     ELSE IF ~users[user].is_verified
     THEN /\ last' = Response("login", 401, LoginKey(username, password),
                              Detail("Email not verified"))
          /\ UNCHANGED issued
     ELSE /\ issued' = issued \cup {users[user].email}
          /\ last' = Response("login", 200, LoginKey(username, password),
                              [access_token |-> create_access_token([sub |-> users[user].email]),
                               token_type |-> "bearer"])
  /\ UNCHANGED <<users, contacts, uuids, regToken, consumed, raceVars>>

\* ------------------------------------------------------------ request inputs
Iso1 == <<"1", "9", "9", "0", "-", "0", "1", "-", "0", "1">>
Iso2 == <<"2", "0", "0", "0", "-", "0", "2", "-", "2", "9">>
IsoBad == <<"1", "9", "9", "0", "-", "0", "2", "-", "3", "0">>
ListV == [t |-> "list"]

F1 == [first_name |-> Str("John"), last_name |-> Str("Doe"), email |-> Str("jd@x"),
       phone |-> Str("123"), birthday |-> Str(Iso1), additional_info |-> Str("friend")]
F2 == [first_name |-> Str("Mary"), last_name |-> Str("Roe"), email |-> Str("mr@x"),
       phone |-> Str("456"), birthday |-> Str(Iso2), additional_info |-> Str("work")]
Without(body, f) == [g \in DOMAIN body \ {f} |-> body[g]]
With(body, f, v) == [g \in DOMAIN body \cup {f} |-> IF g = f THEN v ELSE body[g]]

CreateBodies ==
  { F1, F2,
    With(With(F1, "owner_id", IntV(2)), "id", IntV(2)),
    Without(F1, "phone"),
    With(F1, "birthday", Str(IsoBad)),
    With(F2, "first_name", Null) }

UpdateBodies ==
  { <<>>,
    [first_name |-> Str("Zed"), last_name |-> Str("Zee"), email |-> Str("z@x"),
     owner_id |-> IntV(2), id |-> IntV(2)],
    [phone |-> Null, additional_info |-> Str("moved")],
    [birthday |-> Str(Iso2)],
    [first_name |-> ListV] }

NoBearer == [payload |-> Null, signed |-> FALSE, present |-> FALSE]
Garbage == [payload |-> Null, signed |-> FALSE, present |-> TRUE]
Presented(token) == [payload |-> token.payload, signed |-> token.signed, present |-> TRUE]
Bearers ==
  {NoBearer, Garbage} \cup {Presented(create_access_token([sub |-> e])) : e \in issued}

\* ------------------------------------------------------------ schema parsing
\* ContactCreate: every field required; extra keys ignored; birthday parsed.
ParseContactCreate(body) ==
  IF /\ ContactBase \subseteq DOMAIN body
     /\ \A f \in ContactBase : body[f].t = "str"
     /\ ParseDate(body["birthday"].s).t = "date"
  THEN [ok |-> TRUE,
        fields |-> [f \in ContactBase |->
                      IF f = "birthday" THEN ParseDate(body[f].s) ELSE body[f]]]
  ELSE [ok |-> FALSE, fields |-> <<>>]

\* ContactUpdate: every field Optional[str]; extra keys ignored; dict(exclude_unset)
\* keeps the keys the request set.
ParseContactUpdate(body) ==
  IF \A f \in ContactUpdate \cap DOMAIN body : body[f].t \in {"str", "null"}
  THEN [ok |-> TRUE, fields |-> [f \in ContactUpdate \cap DOMAIN body |-> body[f]]]
  ELSE [ok |-> FALSE, fields |-> <<>>]

\* ----------------------------------------------------------- get_current_user
get_current_user(bearer, expired) ==
  IF ~bearer.present THEN [status |-> 401, user |-> 0]
  ELSE LET payload == verify_token(bearer, expired) IN
       IF payload = Null THEN [status |-> 401, user |-> 0]
       ELSE IF payload.sub = "" THEN [status |-> 401, user |-> 0]
       ELSE IF UserByEmail(payload.sub) = 0 THEN [status |-> 404, user |-> 0]
       ELSE [status |-> 200, user |-> UserByEmail(payload.sub)]

\* ------------------------------------------------------------- create_contact
\* allowed: the verdict of RateLimiter(times=5, seconds=60), kept by an
\* external store and so an input here.
\* The row built with the owner_id the request body names, when it names one.
NewContact_body_owner(fields, body, owner, id) ==
  With(With(fields, "owner_id",
            IF "owner_id" \in DOMAIN body THEN body["owner_id"] ELSE IntV(owner)),
       "id", IntV(id))

\* Contact(**contact.dict(exclude_unset=True), owner_id=current_user.id), with
\* the primary key the storage assigns: an id no row has.
NewContact(fields, body, owner, id) ==
  With(With(fields, "owner_id", IntV(owner)), "id", IntV(id))

create_contact(bearer, expired, allowed, body) ==
  /\ LET current_user == get_current_user(bearer, expired)
         contact == ParseContactCreate(body)
     IN
     IF ~allowed
     THEN /\ last' = Response("create_contact", 429, Null, Detail("Too Many Requests"))
          /\ UNCHANGED contacts
     ELSE IF current_user.status # 200
     THEN /\ last' = Response("create_contact", current_user.status, Null, Detail("auth"))
          /\ UNCHANGED contacts
     ELSE IF ~contact.ok
     THEN /\ last' = Response("create_contact", 422, Null, Detail("validation"))
          /\ UNCHANGED contacts
     ELSE /\ Cardinality(DOMAIN contacts) < MaxContacts
          /\ \E id \in ContactIds \ DOMAIN contacts :
               LET db_contact == NewContact(contact.fields, body, current_user.user, id)
               IN /\ contacts' = With(contacts, id, db_contact)
                  /\ last' = IF ValidContact(db_contact)
                             THEN Response("create_contact", 200,
                                           [id |-> id, fields |-> body, sub |-> bearer.payload.sub],
                                           ContactView(db_contact))
                             ELSE Response("create_contact", 500, Null,
                                           Detail("Internal Server Error"))
  /\ UNCHANGED <<users, uuids, issued, regToken, consumed, raceVars>>

\* --------------------------------------------------------------- get_contacts
GetContacts ==
  IF \A id \in DOMAIN contacts : ValidContact(contacts[id])
  THEN Response("get_contacts", 200, Null,
                [all |-> {ContactView(contacts[id]) : id \in DOMAIN contacts}])
  ELSE Response("get_contacts", 500, Null, Detail("Internal Server Error"))

get_contacts ==
  /\ last' = GetContacts
  /\ UNCHANGED <<users, contacts, uuids, issued, regToken, consumed, raceVars>>

\* ---------------------------------------------------------------- get_contact
GetContact(table, contact_id) ==
  IF contact_id \notin DOMAIN table
  THEN Response("get_contact", 404, IntV(contact_id), Detail("Contact not found"))
  ELSE IF ValidContact(table[contact_id])
  THEN Response("get_contact", 200, IntV(contact_id), ContactView(table[contact_id]))
  ELSE Response("get_contact", 500, IntV(contact_id), Detail("Internal Server Error"))

get_contact(contact_id) ==
  /\ last' = GetContact(contacts, contact_id)
  /\ UNCHANGED <<users, contacts, uuids, issued, regToken, consumed, raceVars>>

\* ------------------------------------------------------------- update_contact
update_contact(contact_id, body) ==
  /\ LET contact == ParseContactUpdate(body) IN
     IF ~contact.ok
     THEN /\ last' = Response("update_contact", 422,
                              [id |-> contact_id, fields |-> body], Detail("validation"))
          /\ UNCHANGED contacts
     ELSE IF contact_id \notin DOMAIN contacts
     THEN /\ last' = Response("update_contact", 404,
                              [id |-> contact_id, fields |-> body],
                              Detail("Contact not found"))
          /\ UNCHANGED contacts
     ELSE LET db_contact == [f \in DOMAIN contacts[contact_id] |->
                               IF f \in DOMAIN contact.fields
                               THEN contact.fields[f] ELSE contacts[contact_id][f]]
          IN /\ contacts' = [contacts EXCEPT ![contact_id] = db_contact]
             /\ last' = IF ValidContact(db_contact)
                        THEN Response("update_contact", 200,
                                      [id |-> contact_id, fields |-> body],
                                      ContactView(db_contact))
                        ELSE Response("update_contact", 500,
                                      [id |-> contact_id, fields |-> body],
                                      Detail("Internal Server Error"))
  /\ UNCHANGED <<users, uuids, issued, regToken, consumed, raceVars>>

\* ------------------------------------------------------------- delete_contact
\* delete_contact answering without removing the row.
delete_contact_no_commit(contact_id) ==
  /\ IF contact_id \notin DOMAIN contacts
     THEN last' = Response("delete_contact", 404, IntV(contact_id),
                           Detail("Contact not found"))
     ELSE last' = Response("delete_contact", 200, IntV(contact_id), [ok |-> TRUE])
  /\ UNCHANGED <<users, contacts, uuids, issued, regToken, consumed, raceVars>>

delete_contact(contact_id) ==
  /\ IF contact_id \notin DOMAIN contacts
     THEN /\ last' = Response("delete_contact", 404, IntV(contact_id),
                              Detail("Contact not found"))
          /\ UNCHANGED contacts
     ELSE /\ contacts' = Without(contacts, contact_id)
          /\ last' = Response("delete_contact", 200, IntV(contact_id), [ok |-> TRUE])
  /\ UNCHANGED <<users, uuids, issued, regToken, consumed, raceVars>>

\* -------------------------------------------------------------- update_avatar
\* uploaded: whether cloudinary.uploader.upload returned (a URL) or raised.
AvatarUrl == Str("https://cdn/avatars/1")

update_avatar(bearer, expired, hasFile, uploaded) ==
  /\ LET current_user == get_current_user(bearer, expired) IN
     IF current_user.status # 200
     THEN /\ last' = Response("update_avatar", current_user.status, Null, Detail("auth"))
          /\ UNCHANGED users
     ELSE IF ~hasFile
     THEN /\ last' = Response("update_avatar", 422, Null, Detail("validation"))
          /\ UNCHANGED users
     ELSE IF ~uploaded
     THEN /\ last' = Response("update_avatar", 500, Null, Detail("Internal Server Error"))
          /\ UNCHANGED users
     ELSE /\ users' = [users EXCEPT ![current_user.user].avatar_url = AvatarUrl]
          /\ last' = Response("update_avatar", 200, IntV(current_user.user),
                              [msg |-> "Avatar updated", avatar_url |-> AvatarUrl])
  /\ UNCHANGED <<contacts, uuids, issued, regToken, consumed, raceVars>>

\* ---------------------------------------------------------------------- Next
VerifyTokens == {uuid4(k) : k \in 0..Cardinality(Emails)}

\* Inputs a handler never reads on the path it takes are fixed to one value:
\* the password of a register for a stored email, the body of a request
\* refused by the limiter or by authentication or aimed at no row, the expiry
\* of a token that is absent or unsigned, the file of a refused upload.
Authenticates(b, x) == get_current_user(b, x).status = 200

RegisterRequest ==
  \E e \in Emails, p \in RegisterPasswords : register(e, p)

VerifyEmailRequest == \E token \in VerifyTokens : verify_email(token)

LoginRequest ==
  \E e \in Emails, p \in Passwords :
    /\ UserByEmail(e) = 0 => p = "pw1"
    /\ login(e, p)

CreateContactRequest ==
  \E b \in Bearers, x \in BOOLEAN, a \in BOOLEAN, body \in CreateBodies :
    /\ ~b.signed => ~x
    /\ ~a => b = NoBearer
    /\ ~(a /\ Authenticates(b, x)) => body = F1
    /\ create_contact(b, x, a, body)

GetContactRequest == \E id \in ContactIds : get_contact(id)

UpdateContactRequest ==
  \E id \in ContactIds, body \in UpdateBodies :
    /\ (id \notin DOMAIN contacts /\ ParseContactUpdate(body).ok) => body = <<>>
    /\ update_contact(id, body)

DeleteContactRequest == \E id \in ContactIds : delete_contact(id)

UpdateAvatarRequest ==
  \E b \in Bearers, x \in BOOLEAN, f \in BOOLEAN, u \in BOOLEAN :
    /\ ~b.signed => ~x
    /\ ~Authenticates(b, x) => f /\ u
    /\ ~f => u
    /\ update_avatar(b, x, f, u)

Next ==
  \/ RegisterRequest
  \/ VerifyEmailRequest
  \/ LoginRequest
  \/ CreateContactRequest
  \/ get_contacts
  \/ GetContactRequest
  \/ UpdateContactRequest
  \/ DeleteContactRequest
  \/ UpdateAvatarRequest

Spec == Init /\ [][Next]_vars

\* -------------------------------------------------- concurrent register
\* Two register requests, each with its own session: the lookup (line 62) and
\* the commit (line 69) are separate steps of each.
register_lookup(proc, e, p) ==
  /\ pc[proc] = "idle"
  /\ IF UserByEmail(e) # 0
     THEN /\ RegisterConflict(e)
          /\ UNCHANGED raceVars
     ELSE /\ pc' = [pc EXCEPT ![proc] = "insert"]
          /\ loc' = [loc EXCEPT ![proc] = [email |-> e, password |-> p]]
          /\ UNCHANGED <<users, uuids, regToken, last>>
  /\ UNCHANGED <<contacts, issued, consumed>>

register_commit(proc) ==
  /\ pc[proc] = "insert"
  /\ RegisterInsert(loc[proc].email, loc[proc].password)
  /\ pc' = [pc EXCEPT ![proc] = "idle"]
  /\ loc' = [loc EXCEPT ![proc] = NoLoc]
  /\ UNCHANGED <<contacts, issued, consumed>>

RegisterLookupStep ==
  \E proc \in Procs, e \in Emails, p \in RegisterPasswords : register_lookup(proc, e, p)
RegisterCommitStep == \E proc \in Procs : register_commit(proc)

NextRace ==
  \/ RegisterLookupStep
  \/ RegisterCommitStep
  \/ VerifyEmailRequest
  \/ LoginRequest

SpecRace == Init /\ [][NextRace]_vars

\* =============================================================== properties
Range(f) == {f[i] : i \in DOMAIN f}
UsersWithEmail(table, e) == {i \in DOMAIN table : table[i].email = e}
UniqueEmails == \A e \in Emails : Cardinality(UsersWithEmail(users, e)) <= 1

\* schemas.User as the register response the claims describe
UserView(row) ==
  [id |-> row.id, email |-> row.email, is_verified |-> row.is_verified,
   avatar_url |-> row.avatar_url]

\* C1: a register request for an email no stored User has answers 200, stores
\* exactly one new User for that email, and returns that User's view with the
\* email and is_verified = false.
C1_RegisterFreshSucceeds ==
  [][\A e \in Emails :
       (last'.op = "register" /\ last'.key.email = e /\ UserByEmail(e) = 0)
       => /\ last'.status = 200
          /\ Len(users') = Len(users) + 1
          /\ Cardinality(UsersWithEmail(users', e)) = 1
          /\ last'.body = UserView(users'[Len(users')])
          /\ last'.body.email = e
          /\ last'.body.is_verified = FALSE]_vars

\* C2: a register request for an email a stored User already has answers 409
\* with detail "User with this email already exists" and leaves storage as it
\* was, with exactly one User for that email.
C2_DuplicateRegisterConflict ==
  [][\A e \in Emails :
       (last'.op = "register" /\ last'.key.email = e /\ UserByEmail(e) # 0)
       => /\ last'.status = 409
          /\ last'.body = Detail("User with this email already exists")
          /\ users' = users
          /\ contacts' = contacts
          /\ Cardinality(UsersWithEmail(users', e)) = 1]_vars

C2_Witness ==
  /\ last.op = "register"
  /\ last.status = 409
  /\ Cardinality(UsersWithEmail(users, last.key.email)) = 1

\* C3: verify_email with a token never issued answers 400 and changes no User;
\* with the token issued at a user's registration and not yet used it answers
\* 200, makes that user verified and clears the token, changing no other User;
\* with a token already used it answers 400 and changes no User.
C3_VerifyEmailOnce ==
  [][last'.op = "verify_email" =>
       LET token == last'.key IN
       /\ token \notin Range(regToken)
            => last'.status = 400 /\ users' = users
       /\ \A u \in DOMAIN regToken :
            (regToken[u] = token /\ token \notin consumed)
            => /\ last'.status = 200
               /\ ~users[u].is_verified
               /\ users'[u].is_verified
               /\ users'[u].verification_token = Null
               /\ \A v \in DOMAIN users : v # u => users'[v] = users[v]
       /\ token \in consumed
            => last'.status = 400 /\ users' = users]_vars

C3_Witness ==
  /\ last.op = "verify_email"
  /\ last.status = 400
  /\ last.key \in consumed

\* C4: login answers 200 with an access token only for a stored user whose
\* verify_email has succeeded and whose password matches; for a stored user
\* still unverified it answers 401, the correct password included.
C4_LoginOnlyVerified ==
  [][last'.op = "login" =>
       LET u == UserByEmail(last'.key.email) IN
       /\ last'.status = 200
            => /\ u # 0
               /\ regToken[u] \in consumed
               /\ users[u].is_verified
               /\ users[u].hashed_password = hash_password(last'.key.password)
               /\ last'.body.access_token.payload.sub = last'.key.email
       /\ (u # 0 /\ ~users[u].is_verified) => last'.status = 401]_vars

C4_Witness ==
  /\ last.op = "login"
  /\ last.status = 401
  /\ LET u == UserByEmail(last.key.email) IN
       /\ u # 0
       /\ ~users[u].is_verified
       /\ users[u].hashed_password = hash_password(last.key.password)

\* C5: every stored User that is not verified has a non-empty verification
\* token, and every stored User that is verified has none.
C5_TokenInvariant ==
  \A u \in DOMAIN users :
    IF users[u].is_verified
    THEN users[u].verification_token = Null
    ELSE /\ users[u].verification_token.t = "str"
         /\ users[u].verification_token.s # <<>>

C5_Witness ==
  /\ \E u \in DOMAIN users : users[u].is_verified
  /\ \E u \in DOMAIN users : ~users[u].is_verified
  /\ \E u \in DOMAIN users : users[u].avatar_url # Null

\* C6: an update of an existing Contact overwrites exactly the supplied
\* fields: in a get after the update every supplied field has the supplied
\* value, and every field not supplied, the id and the owner_id have the value
\* a get before the update showed.
C6_UpdateOverwritesSupplied ==
  [][(/\ last'.op = "update_contact"
      /\ last'.status # 422
      /\ last'.key.id \in DOMAIN contacts)
     => LET id == last'.key.id
            sent == last'.key.fields
            supplied == ContactBase \cap DOMAIN sent
            before == GetContact(contacts, id)
            after == GetContact(contacts', id)
        IN before.status = 200
           => /\ after.status = 200
              /\ \A f \in supplied : after.body[f] = sent[f]
              /\ \A f \in ContactSchema \ supplied : after.body[f] = before.body[f]]_vars

\* C7: after a create by an authenticated user with fields F, a get of the id
\* the create returned answers 200 with exactly the fields F, that id, and the
\* owner_id of the user the bearer token names.
C7_CreateGetRoundTrip ==
  (last.op = "create_contact" /\ last.status = 200)
  => LET got == GetContact(contacts, last.body["id"].n)
         creator == UserByEmail(last.key.sub)
     IN /\ got.status = 200
        /\ \A f \in ContactBase : got.body[f] = last.key.fields[f]
        /\ got.body["id"] = last.body["id"]
        /\ got.body = last.body
        /\ creator # 0
        /\ got.body["owner_id"] = IntV(users[creator].id)

C7_Witness ==
  /\ last.op = "create_contact"
  /\ last.status = 200
  /\ "owner_id" \in DOMAIN last.key.fields
  /\ last.key.fields["owner_id"] # last.body["owner_id"]

\* C8: a delete of an existing Contact answers 200 and a get of the same id
\* then answers 404, the other Contacts kept; a delete or a well-formed update
\* of an id no Contact has answers 404 and changes no User and no Contact.
C8_DeleteThenNotFound ==
  [][/\ (last'.op = "delete_contact" /\ last'.key.n \in DOMAIN contacts)
          => /\ last'.status = 200
             /\ GetContact(contacts', last'.key.n).status = 404
             /\ \A id \in DOMAIN contacts \ {last'.key.n} :
                  id \in DOMAIN contacts' /\ contacts'[id] = contacts[id]
     /\ (last'.op = "delete_contact" /\ last'.key.n \notin DOMAIN contacts)
          => last'.status = 404 /\ store' = store
     /\ (/\ last'.op = "update_contact"
         /\ last'.status # 422
         /\ last'.key.id \notin DOMAIN contacts)
          => last'.status = 404 /\ store' = store]_vars

C8_Witness ==
  /\ last.op = "delete_contact"
  /\ last.status = 200
  /\ GetContact(contacts, last.key.n).status = 404

\* C9: a request that ends in a failure outcome leaves the stored Users and
\* Contacts as they were before it.
C9_FailureLeavesStorage ==
  [][last'.status # 200 => store' = store]_vars

\* C10: with concurrent register requests storage never holds two Users with
\* one email, and a register request that did not create the User ends with
\* 409.
C10_ConcurrentRegisterConflict ==
  /\ UniqueEmails
  /\ (last.op = "register" /\ ~last.key.created) => last.status = 409

====
